---------------------------- MODULE Spec2Model ----------------------------
(***************************************************************************)
(* A model of scripts/ppm_transform.py: the P3 reader and writer, the      *)
(* transform stages (scale_image, skew_horizontal, skew_vertical,          *)
(* rotate_image, add_border_noise, apply_ink_blot), the bilinear sampler,  *)
(* parse_color and main.                                                   *)
(*                                                                         *)
(* Python floats are modelled as exact rationals <<n, d>> with d > 0.  The *)
(* parameter sets below hold dyadic values (and the density default 0.35), *)
(* for which the double arithmetic of the stages is exact, so the rational *)
(* result is the float result.  round() is Python 3's round: to nearest,   *)
(* ties to the even integer.  random.Random(seed) is a deterministic       *)
(* stream indexed by the seed and the number of calls made so far.         *)
(*                                                                         *)
(* math.cos and math.sin are a table of exact values over the angles the   *)
(* model draws.  The sizes rotate_image computes from them are those of    *)
(* the doubles; the pixels it samples are those of real arithmetic, and    *)
(* differ from the doubles' where the rounding error of cos and sin moves  *)
(* a source coordinate across the edge of the image.  No property below    *)
(* reads the pixels of a rotated image.                                    *)
(*                                                                         *)
(* A Python list is a record [id, data]: id is the identity of the list    *)
(* object, data its contents (a sequence, 1-based).                        *)
(***************************************************************************)
EXTENDS Integers, Sequences, FiniteSets, TLC

VARIABLES
    pc,         \* position in main, or "call" / "returned" for a direct call
    args,       \* the parsed command line (argparse namespace)
    comments,   \* main's comments
    metadata_lines, \* main's metadata_lines
    width,      \* main's width
    height,     \* main's height
    pixels,     \* main's pixels: the list object [id, data]
    blot_color, \* main's blot_color
    err,        \* the exception that ended the run, or "none"
    output,     \* what write_ppm wrote, or "none"
    stage,      \* name of the last stage function that was called
    inp,        \* the (width, height, pixels) that call was given
    sampled,    \* the coordinates scale_image handed to bilinear_sample
    draws,      \* the calls add_border_noise made on its generator
    sample      \* the result of a direct bilinear_sample call

vars == <<pc, args, comments, metadata_lines, width, height, pixels,
          blot_color, err, output, stage, inp, sampled, draws, sample>>

----------------------------------------------------------------------------
(* Bounds of the model *)

\* largest width of an input image
MaxW == 3
\* largest height of an input image
MaxH == 3
\* number of seeds drawn for the generator
MaxSeed == 2

----------------------------------------------------------------------------
(* Exact rational arithmetic standing for Python floats *)

Sign(n) == IF n < 0 THEN -1 ELSE 1
AbsInt(n) == IF n < 0 THEN -n ELSE n

RECURSIVE Gcd(_, _)
Gcd(a, b) == IF b = 0 THEN a ELSE Gcd(b, a % b)

Norm(a) ==
    LET g == Gcd(AbsInt(a[1]), a[2])
    IN  IF g = 0 THEN <<0, 1>> ELSE <<a[1] \div g, a[2] \div g>>

I2R(i) == <<i, 1>>
RAdd(a, b) == Norm(<<a[1] * b[2] + b[1] * a[2], a[2] * b[2]>>)
RSub(a, b) == Norm(<<a[1] * b[2] - b[1] * a[2], a[2] * b[2]>>)
RMul(a, b) == Norm(<<a[1] * b[1], a[2] * b[2]>>)
RNeg(a) == <<-a[1], a[2]>>
\* a / b for b # 0
RDiv(a, b) == Norm(<<Sign(b[1]) * a[1] * b[2], a[2] * AbsInt(b[1])>>)
RLt(a, b) == a[1] * b[2] < b[1] * a[2]
RLe(a, b) == a[1] * b[2] <= b[1] * a[2]
REq(a, b) == a[1] * b[2] = b[1] * a[2]
RMin(a, b) == IF RLt(b, a) THEN b ELSE a
RMax(a, b) == IF RLt(a, b) THEN b ELSE a
RAbs(a) == <<AbsInt(a[1]), a[2]>>

\* math.floor and math.ceil
Floor(a) == a[1] \div a[2]
Ceil(a) == -((-a[1]) \div a[2])

\* PyRound with a tie going away from zero (C's round) instead of to even
PyRound_HalfAway(a) ==
    LET f == Floor(a)
        twice == 2 * (a[1] - f * a[2])
    IN  IF twice < a[2] THEN f
        ELSE IF twice > a[2] THEN f + 1
        ELSE IF f >= 0 THEN f + 1 ELSE f

\* Python 3 round(float): nearest integer, a tie goes to the even one
PyRound(a) ==
    LET f == Floor(a)
        twice == 2 * (a[1] - f * a[2])
    IN  IF twice < a[2] THEN f
        ELSE IF twice > a[2] THEN f + 1
        ELSE IF f % 2 = 0 THEN f ELSE f + 1

\* 1 / EPSILON
EPSILON_INV == 1000000000

\* nearly_equal(a, b): abs(a - b) < EPSILON, i.e. diff * EPSILON_INV < dd
NearlyEqual(a, b) ==
    LET diff == AbsInt(a[1] * b[2] - b[1] * a[2])
        dd == a[2] * b[2]
    IN  diff <= (dd - 1) \div EPSILON_INV

----------------------------------------------------------------------------
(* Python lists *)

\* Copy returning its argument itself instead of a new list
Copy_Alias(list) == list

\* list[:]: a new list object with the same contents
Copy(list) == [id |-> list.id + 1, data |-> list.data]

\* a list built by the callee (new_pixels)
NewList(list, data) == [id |-> list.id + 1, data |-> data]

\* what a stage returns, or the exception it raises
Ret(w, h, list) == [err |-> "none", width |-> w, height |-> h, pixels |-> list]
Raise(e, w, h, list) == [err |-> e, width |-> w, height |-> h, pixels |-> list]

----------------------------------------------------------------------------
(* bilinear_sample *)

Px(data, idx) == data[idx + 1]

\* the clamped blend of the four corner samples of one channel (lines 126-143)
Blend(data, w, h, fx, fy, channel) ==
    LET cfx == RMin(RMax(fx, I2R(0)), I2R(w - 1))
        cfy == RMin(RMax(fy, I2R(0)), I2R(h - 1))
        x0 == Floor(cfx)
        y0 == Floor(cfy)
        x1 == IF w - 1 < x0 + 1 THEN w - 1 ELSE x0 + 1
        y1 == IF h - 1 < y0 + 1 THEN h - 1 ELSE y0 + 1
        dx == RSub(cfx, I2R(x0))
        dy == RSub(cfy, I2R(y0))
        p00 == Px(data, (y0 * w + x0) * 3 + channel)
        p10 == Px(data, (y0 * w + x1) * 3 + channel)
        p01 == Px(data, (y1 * w + x0) * 3 + channel)
        p11 == Px(data, (y1 * w + x1) * 3 + channel)
        top == RAdd(I2R(p00), RMul(I2R(p10 - p00), dx))
        bottom == RAdd(I2R(p01), RMul(I2R(p11 - p01), dx))
        value == RAdd(top, RMul(RSub(bottom, top), dy))
    IN  RMin(I2R(255), RMax(I2R(0), value))

BilinearSample(data, w, h, fx, fy) ==
    [c \in 1..3 |-> PyRound(Blend(data, w, h, fx, fy, c - 1))]

----------------------------------------------------------------------------
(* scale_image *)

\* ScaleSrc with the ratio of the sizes taken without the pixel-centre offsets
ScaleSrc_NoCentre(dest, inv) == RMul(I2R(dest), inv)

\* src = ((dest + 0.5) * inv) - 0.5 (lines 157, 159)
ScaleSrc(dest, inv) ==
    RSub(RMul(RAdd(I2R(dest), <<1, 2>>), inv), <<1, 2>>)

\* ScaleSize without the floor at 1
ScaleSize_NoFloor(size, scale) == PyRound(RMul(I2R(size), scale))

\* max(1, int(round(size * scale))) (lines 151, 152)
ScaleSize(size, scale) ==
    LET r == PyRound(RMul(I2R(size), scale))
    IN  IF r < 1 THEN 1 ELSE r

ScaleImage(list, w, h, scale_x, scale_y) ==
    IF NearlyEqual(scale_x, I2R(1)) /\ NearlyEqual(scale_y, I2R(1))
    THEN Ret(w, h, Copy(list))
    ELSE IF scale_x[1] = 0 \/ scale_y[1] = 0
    THEN Raise("ZeroDivisionError", w, h, list)
    ELSE
        LET new_width == ScaleSize(w, scale_x)
            new_height == ScaleSize(h, scale_y)
            inv_x == RDiv(I2R(1), scale_x)
            inv_y == RDiv(I2R(1), scale_y)
            new_pixels ==
                [k \in 1..(new_width * new_height * 3) |->
                    LET p == (k - 1) \div 3
                        row == p \div new_width
                        col == p % new_width
                    IN  BilinearSample(list.data, w, h,
                                       ScaleSrc(col, inv_x),
                                       ScaleSrc(row, inv_y))[((k - 1) % 3) + 1]]
        IN  Ret(new_width, new_height, NewList(list, new_pixels))

\* the (src_x, src_y) scale_image passes to bilinear_sample, in call order
ScaleSampled(w, h, scale_x, scale_y) ==
    IF (NearlyEqual(scale_x, I2R(1)) /\ NearlyEqual(scale_y, I2R(1)))
       \/ scale_x[1] = 0 \/ scale_y[1] = 0
    THEN << >>
    ELSE
        LET new_width == ScaleSize(w, scale_x)
            new_height == ScaleSize(h, scale_y)
            inv_x == RDiv(I2R(1), scale_x)
            inv_y == RDiv(I2R(1), scale_y)
        IN  [p \in 1..(new_width * new_height) |->
                <<ScaleSrc((p - 1) % new_width, inv_x),
                  ScaleSrc((p - 1) \div new_width, inv_y)>>]

----------------------------------------------------------------------------
(* skew_horizontal, skew_vertical *)

\* new[idx : idx + 3] = data[src : src + 3]
CopyPixel(new, dest_idx, data, src_idx) ==
    [new EXCEPT ![dest_idx + 1] = data[src_idx + 1],
                ![dest_idx + 2] = data[src_idx + 2],
                ![dest_idx + 3] = data[src_idx + 3]]

\* slope = 0.0 if dim == 1 else amount / (dim - 1)
SkewSlope(amount, dim) ==
    IF dim = 1 THEN I2R(0) ELSE RDiv(amount, I2R(dim - 1))

\* SkewDest rounding half up, floor(v + 0.5)
SkewDest_HalfUp(pos, shift, min_shift) ==
    Floor(RAdd(RSub(RAdd(I2R(pos), shift), min_shift), <<1, 2>>))

\* int(round(pos + shift - min_shift)) (lines 180, 203)
SkewDest(pos, shift, min_shift) ==
    PyRound(RSub(RAdd(I2R(pos), shift), min_shift))

\* int(math.ceil(max_shift - min_shift)) (lines 175, 198)
SkewGrow(amount) ==
    Ceil(RSub(RMax(I2R(0), amount), RMin(I2R(0), amount)))

\* the loops of lines 177-185, source pixel i = y * width + x in turn
RECURSIVE SkewHFill(_, _, _, _, _, _, _, _)
SkewHFill(new, data, w, h, new_width, slope, min_shift, i) ==
    IF i >= w * h THEN new
    ELSE
        LET y == i \div w
            x == i % w
            dest_x == SkewDest(x, RMul(slope, I2R(y)), min_shift)
        IN  IF dest_x < 0 \/ dest_x >= new_width
            THEN SkewHFill(new, data, w, h, new_width, slope, min_shift, i + 1)
            ELSE SkewHFill(CopyPixel(new, (y * new_width + dest_x) * 3,
                                     data, (y * w + x) * 3),
                           data, w, h, new_width, slope, min_shift, i + 1)

SkewHorizontal(list, w, h, skew_amount) ==
    IF NearlyEqual(skew_amount, I2R(0)) \/ h = 0
    THEN Ret(w, h, Copy(list))
    ELSE
        LET slope == SkewSlope(skew_amount, h)
            min_shift == RMin(I2R(0), skew_amount)
            new_width == w + SkewGrow(skew_amount)
            white == [k \in 1..(new_width * h * 3) |-> 255]
        IN  Ret(new_width, h,
                NewList(list, SkewHFill(white, list.data, w, h, new_width,
                                        slope, min_shift, 0)))

\* the loops of lines 200-208, x outer and y inner: j = x * height + y
RECURSIVE SkewVFill(_, _, _, _, _, _, _, _)
SkewVFill(new, data, w, h, new_height, slope, min_shift, j) ==
    IF j >= w * h THEN new
    ELSE
        LET x == j \div h
            y == j % h
            dest_y == SkewDest(y, RMul(slope, I2R(x)), min_shift)
        IN  IF dest_y < 0 \/ dest_y >= new_height
            THEN SkewVFill(new, data, w, h, new_height, slope, min_shift, j + 1)
            ELSE SkewVFill(CopyPixel(new, (dest_y * w + x) * 3,
                                     data, (y * w + x) * 3),
                           data, w, h, new_height, slope, min_shift, j + 1)

SkewVertical(list, w, h, skew_amount) ==
    IF NearlyEqual(skew_amount, I2R(0)) \/ w = 0
    THEN Ret(w, h, Copy(list))
    ELSE
        LET slope == SkewSlope(skew_amount, w)
            min_shift == RMin(I2R(0), skew_amount)
            new_height == h + SkewGrow(skew_amount)
            white == [k \in 1..(new_height * w * 3) |-> 255]
        IN  Ret(w, new_height,
                NewList(list, SkewVFill(white, list.data, w, h, new_height,
                                        slope, min_shift, 0)))

----------------------------------------------------------------------------
(* rotate_image *)

\* math.cos(math.radians(degrees)) and math.sin(...) for the angles drawn;
\* for 45 degrees sqrt(2)/2 is the rational 12/17
MathCos(degrees) ==
    CASE degrees = <<90, 1>> -> <<0, 1>>
      [] degrees = <<-90, 1>> -> <<0, 1>>
      [] degrees = <<180, 1>> -> <<-1, 1>>
      [] degrees = <<45, 1>> -> <<12, 17>>
      [] OTHER -> <<1, 1>>

MathSin(degrees) ==
    CASE degrees = <<90, 1>> -> <<1, 1>>
      [] degrees = <<-90, 1>> -> <<-1, 1>>
      [] degrees = <<180, 1>> -> <<0, 1>>
      [] degrees = <<45, 1>> -> <<12, 17>>
      [] OTHER -> <<0, 1>>

\* int(round(abs(a) + abs(b))) or 1 (lines 218, 219)
RotateSize(a, b) ==
    LET r == PyRound(RAdd(RAbs(a), RAbs(b)))
    IN  IF r = 0 THEN 1 ELSE r

RotateImage(list, w, h, degrees) ==
    IF NearlyEqual(degrees, I2R(0))
    THEN Ret(w, h, Copy(list))
    ELSE
        LET cos_a == MathCos(degrees)
            sin_a == MathSin(degrees)
            new_width == RotateSize(RMul(I2R(w), cos_a), RMul(I2R(h), sin_a))
            new_height == RotateSize(RMul(I2R(w), sin_a), RMul(I2R(h), cos_a))
            cx == <<w - 1, 2>>
            cy == <<h - 1, 2>>
            nx == <<new_width - 1, 2>>
            ny == <<new_height - 1, 2>>
            new_pixels ==
                [k \in 1..(new_width * new_height * 3) |->
                    LET p == (k - 1) \div 3
                        y == p \div new_width
                        x == p % new_width
                        rx == RSub(I2R(x), nx)
                        ry == RSub(I2R(y), ny)
                        src_x == RAdd(RAdd(RMul(cos_a, rx), RMul(sin_a, ry)), cx)
                        src_y == RAdd(RAdd(RMul(RNeg(sin_a), rx), RMul(cos_a, ry)), cy)
                    IN  IF /\ RLe(I2R(0), src_x) /\ RLe(src_x, I2R(w - 1))
                           /\ RLe(I2R(0), src_y) /\ RLe(src_y, I2R(h - 1))
                        THEN BilinearSample(list.data, w, h, src_x, src_y)[((k - 1) % 3) + 1]
                        ELSE 255]
        IN  Ret(new_width, new_height, NewList(list, new_pixels))

----------------------------------------------------------------------------
(* add_border_noise *)

\* random.Random(seed): the n-th call made on the generator (n from 0).
\* random() is a float in [0, 1), randrange(0, 256) an integer in 0..255.
RngRandom(seed, n) == <<(5 * seed + 3 * n) % 8, 8>>
RngRandrange(seed, n) == (97 * seed + 41 * n + 13) % 256

\* the test of lines 246-249
InBand(x, y, w, h, thickness) ==
    \/ x < thickness \/ x >= w - thickness
    \/ y < thickness \/ y >= h - thickness

\* NoisePixel walking the image column by column (x outer, y inner)
NoisePixel_ColumnMajor(i, w, h) == <<i \div h, i % h>>

\* the i-th pixel (x, y) the loops of lines 244-245 visit: y outer, x inner
NoisePixel(i, w, h) == <<i % w, i \div w>>

\* the loops of lines 244-253; st = [data, log]
RECURSIVE NoiseFill(_, _, _, _, _, _, _)
NoiseFill(st, w, h, thickness, density, seed, i) ==
    IF i >= w * h THEN st
    ELSE
        LET x == NoisePixel(i, w, h)[1]
            y == NoisePixel(i, w, h)[2]
            n == Len(st.log)
            include == RngRandom(seed, n)
            value == RngRandrange(seed, n + 1)
            idx == (y * w + x) * 3
        IN  IF ~InBand(x, y, w, h, thickness)
            THEN NoiseFill(st, w, h, thickness, density, seed, i + 1)
            ELSE IF RLt(include, density)
            THEN NoiseFill(
                    [data |-> [st.data EXCEPT ![idx + 1] = value,
                                              ![idx + 2] = value,
                                              ![idx + 3] = value],
                     log |-> st.log \o
                        << [call |-> "random", x |-> x, y |-> y, value |-> include],
                           [call |-> "randrange", x |-> x, y |-> y, value |-> I2R(value)] >>],
                    w, h, thickness, density, seed, i + 1)
            ELSE NoiseFill(
                    [data |-> st.data,
                     log |-> Append(st.log,
                           [call |-> "random", x |-> x, y |-> y, value |-> include])],
                    w, h, thickness, density, seed, i + 1)

\* returns [pixels, log]: the new list and the calls made on the generator
AddBorderNoise(list, w, h, thickness, density, seed) ==
    IF thickness <= 0 \/ RLe(density, I2R(0))
    THEN [pixels |-> Copy(list), log |-> << >>]
    ELSE
        LET clamped == RMax(I2R(0), RMin(I2R(1), density))
            st == NoiseFill([data |-> list.data, log |-> << >>],
                            w, h, thickness, clamped, seed, 0)
        IN  [pixels |-> NewList(list, st.data), log |-> st.log]

----------------------------------------------------------------------------
(* parse_color: a str is a sequence of one-character strings *)

\* None where a colour triple is expected, and None where a str is expected
None == << >>
NoneStr == <<"<None>">>

IsSpace(ch) == ch \in {" ", "\t", "\n"}

RECURSIVE LStrip(_)
LStrip(s) == IF s # << >> /\ IsSpace(Head(s)) THEN LStrip(Tail(s)) ELSE s

RECURSIVE RStrip(_)
RStrip(s) ==
    IF s # << >> /\ IsSpace(s[Len(s)]) THEN RStrip(SubSeq(s, 1, Len(s) - 1)) ELSE s

Strip(s) == RStrip(LStrip(s))

LowerChar(ch) ==
    CASE ch = "W" -> "w" [] ch = "H" -> "h" [] ch = "I" -> "i" [] ch = "T" -> "t"
      [] ch = "E" -> "e" [] ch = "B" -> "b" [] ch = "L" -> "l" [] ch = "A" -> "a"
      [] ch = "C" -> "c" [] ch = "K" -> "k" [] ch = "F" -> "f" [] ch = "D" -> "d"
      [] ch = "R" -> "r" [] ch = "G" -> "g"
      [] OTHER -> ch

Lower(s) == [i \in 1..Len(s) |-> LowerChar(s[i])]

HexDigits == <<"0", "1", "2", "3", "4", "5", "6", "7", "8", "9",
               "a", "b", "c", "d", "e", "f">>

IsHex(ch) == \E i \in 1..16 : HexDigits[i] = LowerChar(ch)
HexVal(ch) == (CHOOSE i \in 1..16 : HexDigits[i] = LowerChar(ch)) - 1

\* returns [err, color]; err is the SystemExit message, color a triple or None
ParseColor(value) ==
    IF value = NoneStr THEN [err |-> "none", color |-> None]
    ELSE
        LET trimmed == Strip(value)
            lowered == Lower(trimmed)
            hex == IF trimmed # << >> /\ Head(trimmed) = "#"
                   THEN Tail(trimmed) ELSE trimmed
        IN  IF trimmed = << >> THEN [err |-> "none", color |-> None]
            ELSE IF lowered = <<"w", "h", "i", "t", "e">>
            THEN [err |-> "none", color |-> <<255, 255, 255>>]
            ELSE IF lowered = <<"b", "l", "a", "c", "k">>
            THEN [err |-> "none", color |-> <<0, 0, 0>>]
            ELSE IF Len(hex) = 6
            THEN IF \A i \in 1..6 : IsHex(hex[i])
                 THEN [err |-> "none",
                       color |-> [c \in 1..3 |->
                            16 * HexVal(hex[2 * c - 1]) + HexVal(hex[2 * c])]]
                 ELSE [err |-> "ppm_transform: invalid ink blot color format",
                       color |-> None]
            ELSE [err |-> "ppm_transform: ink blot color must be White, Black, or RRGGBB hex",
                  color |-> None]

----------------------------------------------------------------------------
(* apply_ink_blot *)

\* InBlot with a strict comparison
InBlot_Strict(x, y, w, h, radius) ==
    LET dx == RSub(I2R(x), <<w - 1, 2>>)
        dy == RSub(I2R(y), <<h - 1, 2>>)
    IN  RLt(RAdd(RMul(dx, dx), RMul(dy, dy)), I2R(radius * radius))

\* dx * dx + dy_sq <= radius_sq (lines 286-296)
InBlot(x, y, w, h, radius) ==
    LET radius_sq == radius * radius
        cx == <<w - 1, 2>>
        cy == <<h - 1, 2>>
        dy == RSub(I2R(y), cy)
        dy_sq == RMul(dy, dy)
        dx == RSub(I2R(x), cx)
    IN  RLe(RAdd(RMul(dx, dx), dy_sq), I2R(radius_sq))

ApplyInkBlot(list, w, h, radius, color) ==
    IF radius <= 0 \/ color = None \/ w <= 0 \/ h <= 0
    THEN Copy(list)
    ELSE NewList(list,
            [k \in 1..Len(list.data) |->
                LET p == (k - 1) \div 3
                IN  IF p < w * h /\ InBlot(p % w, p \div w, w, h, radius)
                    THEN color[((k - 1) % 3) + 1]
                    ELSE list.data[k]])

----------------------------------------------------------------------------
(* read_ppm, write_ppm, format_float, strip_geometry_comments *)

\* A P3 file: its first line, the header tokens found before the end of the
\* file, its comment lines [key, value] and the integers after the header.

\* returns [err, comments, width, height, data]
ReadPpm(file) ==
    LET fail(msg) == [err |-> msg, comments |-> << >>, width |-> 0,
                      height |-> 0, data |-> << >>]
    IN  IF file.magic # "P3"
        THEN fail("ppm_transform: not an ASCII P3 PPM")
        ELSE IF Len(file.header) < 3
        THEN fail("ppm_transform: truncated header")
        ELSE IF file.header[3] # 255
        THEN fail("ppm_transform: expected maxval 255")
        ELSE IF Len(file.body) # file.header[1] * file.header[2] * 3
        THEN fail("ppm_transform: pixel count mismatch")
        ELSE [err |-> "none", comments |-> file.comments,
              width |-> file.header[1], height |-> file.header[2],
              data |-> file.body]

NoOutput == [written |-> FALSE, comments |-> << >>, width |-> 0, height |-> 0,
             data |-> << >>]

\* the file write_ppm produces
WritePpm(cs, w, h, list) ==
    [written |-> TRUE, comments |-> cs, width |-> w, height |-> h,
     data |-> list.data]

\* f"{value:.6f}" with trailing zeros trimmed and -0 given as 0: the decimal
\* with at most six places, as a rational
FormatFloat(value) == Norm(<<PyRound(RMul(value, I2R(1000000))), 1000000>>)

GeometryPrefixes ==
    {"# skew_src_width", "# skew_src_height", "# skew_margin_x",
     "# skew_x_pixels", "# skew_bottom_x"}

RECURSIVE StripGeometryComments(_)
StripGeometryComments(cs) ==
    IF cs = << >> THEN << >>
    ELSE IF Head(cs).key \in GeometryPrefixes
    THEN StripGeometryComments(Tail(cs))
    ELSE <<Head(cs)>> \o StripGeometryComments(Tail(cs))

\* the lines main appends when skew_x is not nearly 0 (lines 330-335)
SkewMetadata(src_width, src_height, skew_x) ==
    << [key |-> "# skew_src_width", value |-> I2R(src_width)],
       [key |-> "# skew_src_height", value |-> I2R(src_height)],
       [key |-> "# skew_margin_x", value |-> FormatFloat(RNeg(RMin(I2R(0), skew_x)))],
       [key |-> "# skew_x_pixels", value |-> FormatFloat(I2R(0))],
       [key |-> "# skew_bottom_x", value |-> FormatFloat(skew_x)] >>

----------------------------------------------------------------------------
(* Inputs *)

\* channel c of pixel i of test pattern p: 1 a ramp, 2 a checkerboard
PatVal(p, i, c) ==
    IF p = 1 THEN (7 * i + c) % 256
    ELSE IF (i + c) % 2 = 0 THEN 255 ELSE 0

Pattern(p, w, h) == [k \in 1..(w * h * 3) |-> PatVal(p, (k - 1) \div 3, (k - 1) % 3)]

FileComments ==
    << [key |-> "# note", value |-> I2R(0)],
       [key |-> "# skew_margin_x", value |-> <<1, 2>>] >>

GoodFile(p, w, h) ==
    [magic |-> "P3", header |-> <<w, h, 255>>, comments |-> FileComments,
     body |-> Pattern(p, w, h)]

BadFiles ==
    { [magic |-> "P6", header |-> <<1, 1, 255>>, comments |-> << >>,
       body |-> <<0, 0, 0>>],
      [magic |-> "P3", header |-> <<2>>, comments |-> << >>, body |-> << >>],
      [magic |-> "P3", header |-> <<1, 1, 65535>>, comments |-> << >>,
       body |-> <<0, 0, 0>>],
      [magic |-> "P3", header |-> <<2, 1, 255>>, comments |-> << >>,
       body |-> <<0, 0, 0>>] }

\* the input files of a run of main: the extreme sizes, and the unreadable ones
MainFiles ==
    { GoodFile(1, w, h) : w \in {1, MaxW}, h \in {1, MaxH} } \cup BadFiles

\* within EPSILON of 0, and of 1
Tiny == <<1, 2000000000>>
NearOne == <<2000000001, 2000000000>>

ColorStrings ==
    { << >>, <<" ">>, <<"W", "h", "i", "t", "e">>, <<"r", "e", "d">> }

MoreColorStrings ==
    { <<" ", "b", "L", "A", "C", "K", " ">>,
      <<"#", "1", "2", "3", "4", "5", "6">>,
      <<"0", "0", "F", "F", "7", "f">>,
      <<"g", "g", "g", "g", "g", "g">>,
      NoneStr }

DefaultArgs ==
    [input |-> GoodFile(1, 1, 1), scale_x |-> I2R(1), scale_y |-> I2R(1),
     rotate |-> I2R(0), skew_x |-> I2R(0), skew_y |-> I2R(0),
     border_thickness |-> 0, border_density |-> <<7, 20>>, seed |-> 0,
     ink_blot_radius |-> 0, ink_blot_color |-> << >>]

\* The flags of a run of main.  A flag is drawn where main first reads it
\* (the flags are independent and never change); args holds the flags read so
\* far and the argparse default of the others.  The input and the two ink-blot
\* flags are drawn at the start.
MainScaleX == {I2R(1), <<1, 2>>, I2R(0)}
MainScaleY == {I2R(1), I2R(2)}
MainSkewX == {I2R(0), <<-1, 2>>, <<3, 2>>}
MainSkewY == {I2R(0), I2R(1)}
MainRotate == {I2R(0), I2R(90), I2R(45)}
MainThickness == {0, 1}
MainRadius == {0, 1}

----------------------------------------------------------------------------
(* main, lines 302-361 *)

NoSample == [fx |-> I2R(0), fy |-> I2R(0), rgb |-> <<0, 0, 0>>]
NoImage == [width |-> 0, height |-> 0, pixels |-> [id |-> 0, data |-> << >>]]
Current == [width |-> width, height |-> height, pixels |-> pixels]

Init ==
    /\ pc = "start"
    /\ \E f \in MainFiles, r \in MainRadius, c \in ColorStrings :
          args = [DefaultArgs EXCEPT !.input = f, !.ink_blot_radius = r,
                                     !.ink_blot_color = c]
    /\ comments = << >>
    /\ metadata_lines = << >>
    /\ width = 0
    /\ height = 0
    /\ pixels = [id |-> 0, data |-> << >>]
    /\ blot_color = None
    /\ err = "none"
    /\ output = NoOutput
    /\ stage = "none"
    /\ inp = NoImage
    /\ sampled = << >>
    /\ draws = << >>
    /\ sample = NoSample

\* a stage call returned r: main rebinds width, height, pixels, or the
\* exception ends the run
Rebind(r, next) ==
    IF r.err = "none"
    THEN /\ width' = r.width
         /\ height' = r.height
         /\ pixels' = r.pixels
         /\ pc' = next
         /\ err' = err
    ELSE /\ pc' = "exit"
         /\ err' = r.err
         /\ UNCHANGED <<width, height, pixels>>

\* lines 320-322
Load ==
    /\ pc = "start"
    /\ LET r == ReadPpm(args.input)
       IN  IF r.err = "none"
           THEN /\ comments' = StripGeometryComments(r.comments)
                /\ width' = r.width
                /\ height' = r.height
                /\ pixels' = [id |-> 1, data |-> r.data]
                /\ pc' = "loaded"
                /\ err' = err
           ELSE /\ pc' = "exit"
                /\ err' = r.err
                /\ UNCHANGED <<comments, width, height, pixels>>
    /\ UNCHANGED <<args, metadata_lines, blot_color, output, stage, inp,
                   sampled, draws, sample>>

\* line 324
DoScale(next) ==
    /\ stage' = "scale_image"
    /\ inp' = Current
    /\ sampled' = ScaleSampled(width, height, args'.scale_x, args'.scale_y)
    /\ Rebind(ScaleImage(pixels, width, height, args'.scale_x, args'.scale_y), next)

Scale ==
    /\ pc = "loaded"
    /\ \E sx \in MainScaleX, sy \in MainScaleY :
          args' = [args EXCEPT !.scale_x = sx, !.scale_y = sy]
    /\ DoScale("scaled")
    /\ UNCHANGED <<comments, metadata_lines, blot_color, output, draws, sample>>

\* lines 326-337
DoSkewHorizontal(next) ==
    /\ stage' = "skew_horizontal"
    /\ inp' = Current
    /\ Rebind(SkewHorizontal(pixels, width, height, args'.skew_x), next)

SkewX ==
    /\ pc = "scaled"
    /\ \E a \in MainSkewX : args' = [args EXCEPT !.skew_x = a]
    /\ DoSkewHorizontal("skewed_x")
    /\ metadata_lines' =
          IF ~NearlyEqual(args'.skew_x, I2R(0))
          THEN metadata_lines \o SkewMetadata(width, height, args'.skew_x)
          ELSE metadata_lines
    /\ UNCHANGED <<comments, blot_color, output, sampled, draws, sample>>

\* line 339
DoSkewVertical(next) ==
    /\ stage' = "skew_vertical"
    /\ inp' = Current
    /\ Rebind(SkewVertical(pixels, width, height, args'.skew_y), next)

SkewY ==
    /\ pc = "skewed_x"
    /\ \E a \in MainSkewY : args' = [args EXCEPT !.skew_y = a]
    /\ DoSkewVertical("skewed_y")
    /\ UNCHANGED <<comments, metadata_lines, blot_color, output, sampled,
                   draws, sample>>

\* lines 341-351; the margin compute_rotation_margin returns is discarded
DoRotate(next) ==
    /\ stage' = "rotate_image"
    /\ inp' = Current
    /\ Rebind(RotateImage(pixels, width, height, args'.rotate), next)

Rotate ==
    /\ pc = "skewed_y"
    /\ \E d \in MainRotate : args' = [args EXCEPT !.rotate = d]
    /\ DoRotate("rotated")
    /\ UNCHANGED <<comments, metadata_lines, blot_color, output, sampled,
                   draws, sample>>

\* line 353
DoBorderNoise(next) ==
    LET r == AddBorderNoise(pixels, width, height, args'.border_thickness,
                            args'.border_density, args'.seed)
    IN  /\ stage' = "add_border_noise"
        /\ inp' = Current
        /\ draws' = r.log
        /\ Rebind(Ret(width, height, r.pixels), next)

BorderNoise ==
    /\ pc = "rotated"
    /\ \E t \in MainThickness, s \in 1..MaxSeed :
          args' = [args EXCEPT !.border_thickness = t, !.seed = s]
    /\ DoBorderNoise("noised")
    /\ UNCHANGED <<comments, metadata_lines, blot_color, output, sampled, sample>>

\* ParseBlotColor without the test of line 355
ParseBlotColor_NoRadiusTest ==
    /\ pc = "noised"
    /\ LET r == ParseColor(args.ink_blot_color)
       IN  IF r.err # "none"
           THEN /\ pc' = "exit"
                /\ err' = r.err
                /\ UNCHANGED blot_color
           ELSE /\ pc' = "parsed"
                /\ err' = err
                /\ blot_color' = r.color
    /\ UNCHANGED <<args, comments, metadata_lines, width, height, pixels,
                   output, stage, inp, sampled, draws, sample>>

\* lines 354-356
ParseBlotColor ==
    /\ pc = "noised"
    /\ LET r == ParseColor(args.ink_blot_color)
       IN  IF r.err # "none"
           THEN /\ pc' = "exit"
                /\ err' = r.err
                /\ UNCHANGED blot_color
           ELSE IF args.ink_blot_radius > 0 /\ r.color = None
           THEN /\ pc' = "exit"
                /\ err' = "ppm_transform: --ink-blot-radius requires --ink-blot-color"
                /\ blot_color' = r.color
           ELSE /\ pc' = "parsed"
                /\ err' = err
                /\ blot_color' = r.color
    /\ UNCHANGED <<args, comments, metadata_lines, width, height, pixels,
                   output, stage, inp, sampled, draws, sample>>

\* line 357
DoInkBlot(color, next) ==
    /\ stage' = "apply_ink_blot"
    /\ inp' = Current
    /\ Rebind(Ret(width, height,
                  ApplyInkBlot(pixels, width, height, args'.ink_blot_radius, color)),
              next)

InkBlot ==
    /\ pc = "parsed"
    /\ UNCHANGED args
    /\ DoInkBlot(blot_color, "blotted")
    /\ UNCHANGED <<comments, metadata_lines, blot_color, output, sampled,
                   draws, sample>>

\* lines 359-361
Write ==
    /\ pc = "blotted"
    /\ comments' = comments \o metadata_lines
    /\ output' = WritePpm(comments \o metadata_lines, width, height, pixels)
    /\ pc' = "done"
    /\ UNCHANGED <<args, metadata_lines, width, height, pixels, blot_color,
                   err, stage, inp, sampled, draws, sample>>

Next ==
    \/ Load
    \/ Scale
    \/ SkewX
    \/ SkewY
    \/ Rotate
    \/ BorderNoise
    \/ ParseBlotColor
    \/ InkBlot
    \/ Write

Spec == Init /\ [][Next]_vars

----------------------------------------------------------------------------
(* One call of one function on one image *)

Image(p, w, h) ==
    [width |-> w, height |-> h, pixels |-> [id |-> 1, data |-> Pattern(p, w, h)]]

\* every size up to MaxW x MaxH in both patterns
Images == { Image(p, w, h) : p \in {1, 2}, w \in 1..MaxW, h \in 1..MaxH }

\* a factor within EPSILON of 1 and not 1 is drawn only beside another factor
\* within EPSILON of 1: resampling by it is not exact in doubles nor in 32 bits
ScaleArgs == {I2R(1), <<1, 2>>, I2R(2), <<1, 4>>, I2R(0), I2R(-1)}
ScalePairs == (ScaleArgs \X ScaleArgs) \cup ({I2R(1), NearOne} \X {I2R(1), NearOne})
SkewArgs == {I2R(0), Tiny, RNeg(Tiny), <<1, 2>>, <<-1, 2>>, I2R(1), <<3, 2>>,
             <<-3, 2>>, I2R(-2)}
RotateArgs == {I2R(0), Tiny, I2R(90), I2R(-90), I2R(180), I2R(45)}
ThicknessArgs == {-1, 0, 1, 2}
DensityArgs == {<<-1, 2>>, I2R(0), <<7, 20>>, I2R(1), I2R(2)}
RadiusArgs == {-1, 0, 1, 2}
Colors == {None, <<0, 0, 0>>, <<18, 52, 86>>}
SampleCoords(size) == { <<n, 4>> : n \in (-4)..(4 * size) }

CallInit ==
    /\ pc = "call"
    /\ args = DefaultArgs
    /\ comments = << >>
    /\ metadata_lines = << >>
    /\ \E img \in Images :
          /\ width = img.width
          /\ height = img.height
          /\ pixels = img.pixels
    /\ blot_color = None
    /\ err = "none"
    /\ output = NoOutput
    /\ stage = "none"
    /\ inp = NoImage
    /\ sampled = << >>
    /\ draws = << >>
    /\ sample = NoSample

CallScale ==
    /\ pc = "call"
    /\ \E s \in ScalePairs :
          args' = [args EXCEPT !.scale_x = s[1], !.scale_y = s[2]]
    /\ DoScale("returned")
    /\ UNCHANGED <<comments, metadata_lines, blot_color, output, draws, sample>>

CallSkewHorizontal ==
    /\ pc = "call"
    /\ \E a \in SkewArgs : args' = [args EXCEPT !.skew_x = a]
    /\ DoSkewHorizontal("returned")
    /\ UNCHANGED <<comments, metadata_lines, blot_color, output, sampled,
                   draws, sample>>

CallSkewVertical ==
    /\ pc = "call"
    /\ \E a \in SkewArgs : args' = [args EXCEPT !.skew_y = a]
    /\ DoSkewVertical("returned")
    /\ UNCHANGED <<comments, metadata_lines, blot_color, output, sampled,
                   draws, sample>>

CallRotate ==
    /\ pc = "call"
    /\ \E d \in RotateArgs : args' = [args EXCEPT !.rotate = d]
    /\ DoRotate("returned")
    /\ UNCHANGED <<comments, metadata_lines, blot_color, output, sampled,
                   draws, sample>>

CallBorderNoise ==
    /\ pc = "call"
    /\ \E t \in ThicknessArgs, d \in DensityArgs, s \in 0..MaxSeed :
          args' = [args EXCEPT !.border_thickness = t, !.border_density = d,
                               !.seed = s]
    /\ DoBorderNoise("returned")
    /\ UNCHANGED <<comments, metadata_lines, blot_color, output, sampled, sample>>

CallInkBlot ==
    /\ pc = "call"
    /\ \E r \in RadiusArgs, c \in Colors :
          /\ args' = [args EXCEPT !.ink_blot_radius = r]
          /\ blot_color' = c
          /\ DoInkBlot(c, "returned")
    /\ UNCHANGED <<comments, metadata_lines, output, sampled, draws, sample>>

CallParseColor ==
    /\ pc = "call"
    /\ \E v \in ColorStrings \cup MoreColorStrings :
          /\ args' = [args EXCEPT !.ink_blot_color = v]
          /\ stage' = "parse_color"
          /\ IF ParseColor(v).err = "none"
             THEN pc' = "returned" /\ err' = err
             ELSE pc' = "exit" /\ err' = ParseColor(v).err
          /\ blot_color' = ParseColor(v).color
    /\ UNCHANGED <<comments, metadata_lines, width, height, pixels, output,
                   inp, sampled, draws, sample>>

CallBilinearSample ==
    /\ pc = "call"
    /\ \E fx \in SampleCoords(width), fy \in SampleCoords(height) :
          sample' = [fx |-> fx, fy |-> fy,
                     rgb |-> BilinearSample(pixels.data, width, height, fx, fy)]
    /\ stage' = "bilinear_sample"
    /\ inp' = Current
    /\ pc' = "returned"
    /\ UNCHANGED <<args, comments, metadata_lines, width, height, pixels,
                   blot_color, err, output, sampled, draws>>

CallNext ==
    \/ CallScale
    \/ CallSkewHorizontal
    \/ CallSkewVertical
    \/ CallRotate
    \/ CallBorderNoise
    \/ CallInkBlot
    \/ CallParseColor
    \/ CallBilinearSample

CallSpec == CallInit /\ [][CallNext]_vars

----------------------------------------------------------------------------
(* Properties *)

Stages == {"scale_image", "skew_horizontal", "skew_vertical", "rotate_image",
           "add_border_noise", "apply_ink_blot"}

\* the pixel (x, y) of an image, as a triple
PixelAt(data, w, x, y) == [c \in 1..3 |-> data[(y * w + x) * 3 + c]]

\* C1: in a run of main on a valid image, after every stage that returned
\* (scale, both skews, rotate, border noise, ink blot, in that order) the
\* buffer holds width * height * 3 values and width and height are at least 1.
C1_SizeInvariant ==
    pc \notin {"start", "exit"} =>
        /\ Len(pixels.data) = width * height * 3
        /\ width >= 1
        /\ height >= 1

\* C1 witness: the end of a run in which every stage did its work
C1_Witness ==
    /\ pc = "blotted"
    /\ args.scale_x = <<1, 2>>
    /\ args.input.header[1] = 1
    /\ args.skew_x = <<3, 2>>
    /\ args.skew_y = I2R(1)
    /\ args.rotate = I2R(45)
    /\ args.border_thickness = 1
    /\ args.ink_blot_radius = 1
    /\ blot_color # None
    /\ width > 3

\* C2: every stage is total: whatever the numeric parameters, a zero scale
\* factor included, the call returns an image and raises nothing.
C2_StagesNeverFail ==
    stage \in Stages => (err = "none" /\ pc # "exit")

\* the blend of section 4.1: corner samples weighted (1-dx)(1-dy), dx(1-dy),
\* (1-dx)dy, dx*dy, clamped to [0, 255], for a coordinate clamped to the image
WeightedBlend(data, w, h, fx, fy, channel) ==
    LET cfx == RMin(RMax(fx, I2R(0)), I2R(w - 1))
        cfy == RMin(RMax(fy, I2R(0)), I2R(h - 1))
        x0 == Floor(cfx)
        y0 == Floor(cfy)
        x1 == IF x0 + 1 > w - 1 THEN w - 1 ELSE x0 + 1
        y1 == IF y0 + 1 > h - 1 THEN h - 1 ELSE y0 + 1
        dx == RSub(cfx, I2R(x0))
        dy == RSub(cfy, I2R(y0))
        ex == RSub(I2R(1), dx)
        ey == RSub(I2R(1), dy)
        term(wx, wy, x, y) ==
            RMul(RMul(wx, wy), I2R(data[(y * w + x) * 3 + channel + 1]))
        v == RAdd(RAdd(term(ex, ey, x0, y0), term(dx, ey, x1, y0)),
                  RAdd(term(ex, dy, x0, y1), term(dx, dy, x1, y1)))
    IN  RMin(I2R(255), RMax(I2R(0), v))

\* v is k + 1/2 for an integer k
IsTie(v) == (2 * v[1]) % v[2] = 0 /\ v[1] % v[2] # 0

SampleBlend(c) ==
    WeightedBlend(inp.pixels.data, inp.width, inp.height, sample.fx, sample.fy, c - 1)

\* C3 as stated: when the clamped blend of a channel is exactly k + 0.5,
\* bilinear_sample returns k + 1 (a tie rounds half away from zero).
C3_TiesAwayFromZero ==
    stage = "bilinear_sample" =>
        \A c \in 1..3 :
            IsTie(SampleBlend(c)) => sample.rgb[c] = Floor(SampleBlend(c)) + 1

\* C3 amended: bilinear_sample returns the integer nearest to the clamped
\* blend, and when the blend is exactly k + 0.5 it returns the even one of k
\* and k + 1: k + 1 for odd k, k for even k.
C3_TiesToEven ==
    stage = "bilinear_sample" =>
        \A c \in 1..3 :
            LET v == SampleBlend(c)
                k == Floor(v)
            IN  /\ IsTie(v) => sample.rgb[c] = (IF k % 2 = 0 THEN k ELSE k + 1)
                /\ ~IsTie(v) =>
                      /\ RLt(RAbs(RSub(I2R(sample.rgb[c]), v)), <<1, 2>>)

\* C3 witness: a sample whose blend is a tie above an even k, returned as k
C3_Witness ==
    /\ stage = "bilinear_sample"
    /\ \E c \in 1..3 :
          /\ IsTie(SampleBlend(c))
          /\ Floor(SampleBlend(c)) % 2 = 0
          /\ sample.rgb[c] = Floor(SampleBlend(c))

\* the coordinate C4 states for output index dest: ((dest + 0.5) *
\* (src_size / dest_size)) - 0.5
PixelCentre(dest, src_size, dest_size) ==
    RSub(RMul(RAdd(I2R(dest), <<1, 2>>), <<src_size, dest_size>>), <<1, 2>>)

Resampled == stage = "scale_image" /\ pc = "returned" /\ sampled # << >>

\* C4 as stated: when scale_image resamples, the coordinate sampled for
\* output column col (row row) is ((col + 0.5) * (width / new_width)) - 0.5
\* (resp. height / new_height), whatever the scale factors.
C4_SrcFromSizeRatio ==
    Resampled =>
        \A p \in 1..(width * height) :
            /\ sampled[p][1] = PixelCentre((p - 1) % width, inp.width, width)
            /\ sampled[p][2] = PixelCentre((p - 1) \div width, inp.height, height)

\* C4 amended: the coordinate sampled for output column col (row row) is
\* ((col + 0.5) * (1 / scale_x)) - 0.5 (resp. 1 / scale_y), one sample per
\* output pixel in row-major order; it is the coordinate C4 states exactly
\* when width * scale_x (resp. height * scale_y) equals the output size, that
\* is when the product is an integer >= 1.
C4_SrcFromInverseScale ==
    Resampled =>
        /\ Len(sampled) = width * height
        /\ width = (IF PyRound(RMul(I2R(inp.width), args.scale_x)) < 1 THEN 1
                    ELSE PyRound(RMul(I2R(inp.width), args.scale_x)))
        /\ height = (IF PyRound(RMul(I2R(inp.height), args.scale_y)) < 1 THEN 1
                     ELSE PyRound(RMul(I2R(inp.height), args.scale_y)))
        /\ \A p \in 1..(width * height) :
            LET col == (p - 1) % width
                row == (p - 1) \div width
            IN  /\ REq(RMul(RAdd(sampled[p][1], <<1, 2>>), args.scale_x),
                       RAdd(I2R(col), <<1, 2>>))
                /\ REq(RMul(RAdd(sampled[p][2], <<1, 2>>), args.scale_y),
                       RAdd(I2R(row), <<1, 2>>))
                /\ (sampled[p][1] = PixelCentre(col, inp.width, width))
                      <=> REq(RMul(I2R(inp.width), args.scale_x), I2R(width))
                /\ (sampled[p][2] = PixelCentre(row, inp.height, height))
                      <=> REq(RMul(I2R(inp.height), args.scale_y), I2R(height))
                /\ PixelAt(pixels.data, width, col, row) =
                      BilinearSample(inp.pixels.data, inp.width, inp.height,
                                     sampled[p][1], sampled[p][2])

\* C4 witness: a resampling whose width * scale_x is no integer
C4_Witness ==
    /\ Resampled
    /\ inp.width = 3
    /\ args.scale_x = <<1, 2>>
    /\ width = 2
    /\ sampled[1][1] = <<1, 2>>

NoiseApplied ==
    /\ stage = "add_border_noise"
    /\ pc = "returned"
    /\ args.border_thickness > 0
    /\ RLt(I2R(0), args.border_density)

\* x < thickness or x >= width - thickness or y < thickness or
\* y >= height - thickness
BandPixel(x, y) ==
    \/ x < args.border_thickness \/ x >= width - args.border_thickness
    \/ y < args.border_thickness \/ y >= height - args.border_thickness

ClampedDensity ==
    IF RLt(I2R(1), args.border_density) THEN I2R(1) ELSE args.border_density

IncludeDraws == SelectSeq(draws, LAMBDA d : d.call = "random")
RowMajor(d) == d.y * width + d.x

\* C5: add_border_noise with thickness > 0 and density > 0 draws from one
\* generator seeded once, in row-major order: every band pixel takes one
\* include draw, followed at once by one value draw exactly when the include
\* draw is below the clamped density, and then the pixel becomes (v, v, v) for
\* the drawn v in 0..255; a pixel outside the band takes no draw and keeps its
\* input value.
C5_NoiseDrawOrder ==
    NoiseApplied =>
        \* the n-th call on the generator gets the n-th output of the stream
        /\ \A i \in 1..Len(draws) :
              draws[i].value = (IF draws[i].call = "random"
                                THEN RngRandom(args.seed, i - 1)
                                ELSE I2R(RngRandrange(args.seed, i - 1)))
        \* one include draw per band pixel, none for the others, row-major
        /\ \A i \in 1..Len(IncludeDraws) :
              /\ BandPixel(IncludeDraws[i].x, IncludeDraws[i].y)
              /\ i > 1 => RowMajor(IncludeDraws[i - 1]) < RowMajor(IncludeDraws[i])
        /\ Len(IncludeDraws) =
              Cardinality({q \in (0..(width - 1)) \X (0..(height - 1)) :
                              BandPixel(q[1], q[2])})
        \* a value draw follows an include draw below the density, and only that
        /\ \A i \in 1..Len(draws) :
              /\ draws[i].call = "randrange" =>
                    /\ i > 1
                    /\ draws[i - 1].call = "random"
                    /\ draws[i - 1].x = draws[i].x
                    /\ draws[i - 1].y = draws[i].y
                    /\ RLt(draws[i - 1].value, ClampedDensity)
                    /\ draws[i].value[2] = 1
                    /\ draws[i].value[1] \in 0..255
              /\ (draws[i].call = "random" /\ RLt(draws[i].value, ClampedDensity)) =>
                    /\ i < Len(draws)
                    /\ draws[i + 1].call = "randrange"
                    /\ draws[i + 1].x = draws[i].x
                    /\ draws[i + 1].y = draws[i].y
        \* the pixels
        /\ width = inp.width
        /\ height = inp.height
        /\ \A x \in 0..(width - 1), y \in 0..(height - 1) :
              LET vs == {i \in 1..Len(draws) :
                            /\ draws[i].call = "randrange"
                            /\ draws[i].x = x
                            /\ draws[i].y = y}
              IN  IF vs = {}
                  THEN PixelAt(pixels.data, width, x, y) =
                          PixelAt(inp.pixels.data, width, x, y)
                  ELSE \A i \in vs :
                          PixelAt(pixels.data, width, x, y) =
                             <<draws[i].value[1], draws[i].value[1], draws[i].value[1]>>

\* C5 witness: a 3 x 3 image with a band of 1: the centre takes no draw, and
\* some band pixels are included and some are not
C5_Witness ==
    /\ NoiseApplied
    /\ width = 3
    /\ height = 3
    /\ args.border_thickness = 1
    /\ Len(IncludeDraws) = 8
    /\ Len(draws) > 8
    /\ Len(draws) < 16

NoOpCall ==
    /\ pc = "returned"
    /\ \/ /\ stage = "scale_image"
          /\ NearlyEqual(args.scale_x, I2R(1))
          /\ NearlyEqual(args.scale_y, I2R(1))
       \/ stage = "skew_horizontal" /\ NearlyEqual(args.skew_x, I2R(0))
       \/ stage = "skew_vertical" /\ NearlyEqual(args.skew_y, I2R(0))
       \/ stage = "rotate_image" /\ NearlyEqual(args.rotate, I2R(0))
       \/ /\ stage = "add_border_noise"
          /\ (args.border_thickness <= 0 \/ RLe(args.border_density, I2R(0)))
       \/ /\ stage = "apply_ink_blot"
          /\ (args.ink_blot_radius <= 0 \/ blot_color = None)

\* C6: a stage called with its no-op parameter returns the width, height and
\* pixel sequence it was given, in a new list and not the list it was given.
C6_NoOpIsFreshCopy ==
    NoOpCall =>
        /\ width = inp.width
        /\ height = inp.height
        /\ pixels.data = inp.pixels.data
        /\ pixels.id # inp.pixels.id

\* C6 witness: scale_image called with factors within 1e-9 of 1 and not 1
C6_Witness ==
    /\ NoOpCall
    /\ stage = "scale_image"
    /\ args.scale_x = NearOne
    /\ args.scale_y = NearOne
    /\ width * height > 1

BlotApplied ==
    /\ stage = "apply_ink_blot"
    /\ pc = "returned"
    /\ args.ink_blot_radius > 0
    /\ blot_color # None

\* C7: apply_ink_blot with radius > 0 and a colour leaves width and height
\* as they are and returns the colour at (x, y) exactly when
\* (x - (width-1)/2)^2 + (y - (height-1)/2)^2 <= radius^2, and the input
\* pixel everywhere else.
C7_BlotDisc ==
    BlotApplied =>
        /\ width = inp.width
        /\ height = inp.height
        /\ Len(pixels.data) = Len(inp.pixels.data)
        /\ \A x \in 0..(width - 1), y \in 0..(height - 1) :
              PixelAt(pixels.data, width, x, y) =
                 (IF (2 * x - (width - 1)) * (2 * x - (width - 1))
                      + (2 * y - (height - 1)) * (2 * y - (height - 1))
                      <= 4 * args.ink_blot_radius * args.ink_blot_radius
                  THEN blot_color
                  ELSE PixelAt(inp.pixels.data, width, x, y))

\* C7 witness: radius 1 on 3 x 3: the centre (1, 1) is painted, and so is
\* (0, 1) at distance exactly 1; the corner (0, 0) is not
C7_Witness ==
    /\ BlotApplied
    /\ width = 3
    /\ height = 3
    /\ args.ink_blot_radius = 1
    /\ PixelAt(pixels.data, width, 1, 1) = blot_color
    /\ PixelAt(pixels.data, width, 0, 1) = blot_color
    /\ PixelAt(pixels.data, width, 0, 0) # blot_color
    /\ PixelAt(pixels.data, width, 0, 0) = PixelAt(inp.pixels.data, width, 0, 0)

SkewedX ==
    stage = "skew_horizontal" /\ pc = "returned" /\ ~NearlyEqual(args.skew_x, I2R(0))
SkewedY ==
    stage = "skew_vertical" /\ pc = "returned" /\ ~NearlyEqual(args.skew_y, I2R(0))

\* position + slope * other - min(0, amount), with slope = amount / (dim - 1),
\* or 0 when dim is 1
SkewTarget(pos, other, dim, amount) ==
    RSub(RAdd(I2R(pos),
              RMul(IF dim = 1 THEN I2R(0) ELSE RDiv(amount, I2R(dim - 1)), I2R(other))),
         RMin(I2R(0), amount))

DestX(x, y) == PyRound(SkewTarget(x, y, inp.height, args.skew_x))
DestY(x, y) == PyRound(SkewTarget(y, x, inp.width, args.skew_y))

UsageError == "ppm_transform: --ink-blot-radius requires --ink-blot-color"

\* a positive radius and a colour that is empty or only whitespace
RadiusWithoutColor ==
    /\ args.ink_blot_radius > 0
    /\ \A i \in 1..Len(args.ink_blot_color) : args.ink_blot_color[i] \in {" ", "\t", "\n"}

\* C8 as stated: a run of main with a positive ink-blot radius and no colour
\* always ends in the usage error, and write_ppm is never called.
C8_AlwaysUsageError ==
    RadiusWithoutColor =>
        /\ ~output.written
        /\ pc # "done"
        /\ pc = "exit" => err = UsageError

\* C8 amended: a run of main with a positive ink-blot radius and no colour
\* never calls write_ppm and never completes; it ends in the usage error when
\* read_ppm and every stage before the colour is parsed return, and otherwise
\* in the earlier failure: read_ppm's format error, or scale_image's
\* ZeroDivisionError for a zero factor.
C8_NoOutputWithoutColor ==
    RadiusWithoutColor =>
        /\ ~output.written
        /\ pc \notin {"parsed", "blotted", "done"}
        /\ pc = "exit" =>
              /\ err # "none"
              /\ (err = UsageError) <=> (stage = "add_border_noise")
              /\ (stage = "none") <=>
                    \/ args.input.magic # "P3"
                    \/ Len(args.input.header) < 3
                    \/ args.input.header[3] # 255
                    \/ Len(args.input.body) #
                          args.input.header[1] * args.input.header[2] * 3
              /\ (stage = "scale_image") <=> (err = "ZeroDivisionError")
              /\ (err = "ZeroDivisionError") =>
                    (args.scale_x[1] = 0 \/ args.scale_y[1] = 0)

\* C8 witness: such a run that got as far as the test and ended in the usage
\* error, after the image was scaled and noise was added
C8_Witness ==
    /\ RadiusWithoutColor
    /\ pc = "exit"
    /\ err = UsageError
    /\ args.ink_blot_color = <<" ">>
    /\ args.scale_x = <<1, 2>>
    /\ args.border_thickness = 1
    /\ ~output.written

\* C9: with an ink-blot radius of 0 the colour argument is ignored: whatever
\* the colour string, the run does not fail on it and, when it completes, it
\* writes the image the border-noise stage produced, as with no colour given.
C9_ColorIgnoredAtRadiusZero ==
    args.ink_blot_radius = 0 =>
        /\ pc = "exit" =>
              err \notin {"ppm_transform: ink blot color must be White, Black, or RRGGBB hex",
                          "ppm_transform: invalid ink blot color format"}
        /\ pc = "done" =>
              /\ output.written
              /\ output.data = inp.pixels.data

=============================================================================
